---- MODULE Spec2Model ----
\* Model of PyMine's query protocol (pymine/logic/query.py): the QueryBuffer
\* cursor, its primitive codecs, and the QueryServer datagram handlers.
\* Bytes are naturals in 0..255; byte strings and text are sequences of them.
EXTENDS Integers, Sequences, FiniteSets, TLC

VARIABLES
    challenge_cache,  \* QueryServer.challenge_cache: dict remote -> token
    tasks,            \* handler tasks created by QueryServer.handle, in dispatch order
    sent,             \* datagrams handed out by self._server.send, in order
    conf,             \* the server metadata the stat responses read
    qbuf,             \* a standalone QueryBuffer: its buf
    qpos,             \* a standalone QueryBuffer: its pos
    qop,              \* the last operation applied to the standalone QueryBuffer
    server_task,      \* QueryServer.server_task, the task running handle()
    cx,               \* a standalone codec call (unpack_string, unpack_magic) in progress
    pkt,              \* the last chunk packet encoded
    inst              \* the last packet instance constructed from a class of chunk.py

vars == <<challenge_cache, tasks, sent, conf, qbuf, qpos, qop, server_task, cx, pkt, inst>>

\* ---------------------------------------------------------------- bounds
MaxTasks == 2      \* datagrams received by the loop in one run
MaxBufLen == 3     \* bytes written to the standalone QueryBuffer
MaxRead == 3       \* largest n passed to read(n)
MaxPos == 7        \* cap on the (otherwise unbounded) read position
MaxStrLen == 2     \* longest string handed to pack_string
MaxSectionY == 2   \* highest section index a chunk holds
MaxCoord == 2      \* chunk coordinates given to PlayUnloadChunk range over -MaxCoord..MaxCoord
MaxHandlers == 3   \* datagrams received in one run of the server's life cycle

\* ---------------------------------------------------------------- helpers
Min(a, b) == IF a < b THEN a ELSE b

\* Python's buf[a:b] for 0 <= a and 0 <= b: never fails, clips to the buffer.
Slice(buf, a, b) ==
    LET lo == Min(a, Len(buf))
        hi == Min(b, Len(buf))
    IN  IF hi <= lo THEN <<>> ELSE SubSeq(buf, lo + 1, hi)

RECURSIVE DigitsOf(_)
DigitsOf(n) == IF n < 10 THEN <<48 + n>> ELSE DigitsOf(n \div 10) \o <<48 + (n % 10)>>

\* str(n) for an int n, as Latin-1 code points ("-" is 45, "0" is 48).
StrInt(n) == IF n < 0 THEN <<45>> \o DigitsOf(0 - n) ELSE DigitsOf(n)

\* ---------------------------------------------------------------- QueryBuffer
\* QueryBuffer(buf): pos starts at 0.
QueryBuffer(buf) == [buf |-> buf, pos |-> 0]

\* write(data): self.buf += data
write(qb, data) == [buf |-> qb.buf \o data, pos |-> qb.pos]

\* read(length): the slice is taken first, the finally clause then always adds
\* length to pos; with length None, length is rebound to len(self.buf). There
\* is no raise in it and slicing never raises, so exc is always "none".
read(qb, lengthIsNone, n) ==
    LET length == IF lengthIsNone THEN Len(qb.buf) ELSE n
        ret == IF lengthIsNone
               THEN Slice(qb.buf, qb.pos, Len(qb.buf))
               ELSE Slice(qb.buf, qb.pos, qb.pos + length)
    IN  [exc |-> "none", ret |-> ret, qb |-> [buf |-> qb.buf, pos |-> qb.pos + length]]

\* A reset that also discards the contents.
reset_Clears(qb) == [buf |-> << >>, pos |-> 0]

\* reset(): self.pos = 0
reset(qb) == [buf |-> qb.buf, pos |-> 0]

\* pack_magic(): the literal b"\xFE\xFD"
pack_magic == <<254, 253>>

\* unpack_magic without the comparison against 65277.
unpack_magic_NoCompare(qb) ==
    LET r == read(qb, FALSE, 2)
    IN  IF Len(r.ret) # 2
        THEN [exc |-> "struct.error", val |-> 0, qb |-> r.qb]
        ELSE [exc |-> "none", val |-> r.ret[1] * 256 + r.ret[2], qb |-> r.qb]

\* unpack_magic comparing against 65527, the number in pack_magic's comment.
unpack_magic_65527(qb) ==
    LET r == read(qb, FALSE, 2)
    IN  IF Len(r.ret) # 2
        THEN [exc |-> "struct.error", val |-> 0, qb |-> r.qb]
        ELSE LET magic == r.ret[1] * 256 + r.ret[2]
             IN  IF magic # 65527
                 THEN [exc |-> "ValueError", val |-> magic, qb |-> r.qb]
                 ELSE [exc |-> "none", val |-> magic, qb |-> r.qb]

\* unpack_magic(): struct.unpack(">H", self.read(2)) raises struct.error unless
\* 2 bytes came back; a value other than 65277 raises ValueError.
unpack_magic(qb) ==
    LET r == read(qb, FALSE, 2)
    IN  IF Len(r.ret) # 2
        THEN [exc |-> "struct.error", val |-> 0, qb |-> r.qb]
        ELSE LET magic == r.ret[1] * 256 + r.ret[2]
             IN  IF magic # 65277
                 THEN [exc |-> "ValueError", val |-> magic, qb |-> r.qb]
                 ELSE [exc |-> "none", val |-> magic, qb |-> r.qb]

\* pack_string that forgets the terminator.
pack_string_NoNul(string) == string

\* pack_string(string): bytes(str(string), "latin-1") + b"\x00". The argument
\* here is str(string) as code points 0..255, each encoded as the same byte.
pack_string(string) == string \o <<0>>

\* unpack_string(): one turn of its while True loop. read(1) gives b"\x00" (the
\* loop breaks and out.decode("latin-1") is returned, each byte the code point
\* of the same value), or any other result, which is appended to out; past the
\* end read(1) gives b"", which is not b"\x00" either, so the loop goes on.
unpack_string_iter(qb, out) ==
    LET r == read(qb, FALSE, 1)
    IN  IF r.ret = <<0>>
        THEN [pc |-> "returned", qb |-> r.qb, out |-> out]
        ELSE [pc |-> "loop", qb |-> r.qb, out |-> out \o r.ret]

\* pack_int32(num): struct.pack(">i", num), big-endian two's complement.
pack_int32(num) ==
    << (num \div 16777216) % 256, (num \div 65536) % 256, (num \div 256) % 256, num % 256 >>

\* unpack_int32 that decodes whatever came back, a short read padded with zeros.
unpack_int32_ShortOk(qb) ==
    LET r == read(qb, FALSE, 4)
        b == [k \in 1..4 |-> IF k <= Len(r.ret) THEN r.ret[k] ELSE 0]
        hi == IF b[1] >= 128 THEN b[1] - 256 ELSE b[1]
    IN  [exc |-> "none",
         val |-> hi * 16777216 + b[2] * 65536 + b[3] * 256 + b[4],
         qb |-> r.qb]

\* unpack_int32(): struct.unpack(">i", self.read(4)), struct.error on a short read.
unpack_int32(qb) ==
    LET r == read(qb, FALSE, 4)
    IN  IF Len(r.ret) # 4
        THEN [exc |-> "struct.error", val |-> 0, qb |-> r.qb]
        ELSE LET b == r.ret
                 hi == IF b[1] >= 128 THEN b[1] - 256 ELSE b[1]
             IN  [exc |-> "none",
                  val |-> hi * 16777216 + b[2] * 65536 + b[3] * 256 + b[4],
                  qb |-> r.qb]

\* pack_byte(byte): struct.pack(">b", byte) for -128 <= byte <= 127.
pack_byte(byte) == << byte % 256 >>

\* unpack_byte(): struct.unpack(">b", self.read(1)), struct.error on a short read.
unpack_byte(qb) ==
    LET r == read(qb, FALSE, 1)
    IN  IF Len(r.ret) # 1
        THEN [exc |-> "struct.error", val |-> 0, qb |-> r.qb]
        ELSE [exc |-> "none",
              val |-> IF r.ret[1] >= 128 THEN r.ret[1] - 256 ELSE r.ret[1],
              qb |-> r.qb]

\* ---------------------------------------------------------------- inputs
\* Remote socket addresses datagrams arrive from.
Remotes == {"r1", "r2"}

\* Server metadata read by the stat responses: conf["motd"], conf["level_name"],
\* meta.version, len(cache.states), conf["max_players"], port, addr.
Confs ==
    { [motd |-> <<72, 105>>, level_name |-> <<119, 111, 114, 108, 100>>,
       version |-> <<49, 46, 49, 54, 46, 53>>, numplayers |-> 0,
       max_players |-> 20, port |-> 25565, addr |-> <<48, 46, 48, 46, 48, 46, 48>>],
      [motd |-> <<65, 32, 98>>, level_name |-> <<119, 50>>,
       version |-> <<49, 46, 48>>, numplayers |-> 3,
       max_players |-> 7, port |-> 80, addr |-> <<58, 58, 49>>] }

Tokens == {1, -13}

\* Datagrams the network may deliver: well-formed handshakes and stats, and
\* malformed ones (bad or short magic, truncated fields, unknown types).
Handshakes ==
    { pack_magic \o <<9>> \o pack_int32(1234) \o t :
        t \in {<<>>} \cup { pack_int32(c) : c \in Tokens } }

StatTails == { <<>>, <<0, 0, 0, 0>>, <<0, 0, 0>>, <<0, 0, 1, 0>>, <<0, 0, 0, 0, 5>> }

Stats ==
    { pack_magic \o <<0>> \o pack_int32(-2) \o pack_int32(0) \o tail : tail \in StatTails }
    \cup { pack_magic \o <<0>> \o pack_int32(-2),
           pack_magic \o <<0>> \o pack_int32(77) \o pack_int32(1) }

Malformed ==
    { <<254>>,
      <<253, 254, 9>> \o pack_int32(1234) \o pack_int32(1),
      pack_magic,
      pack_magic \o <<9, 0, 0>>,
      pack_magic \o <<9>> \o pack_int32(1234) \o <<0>>,
      pack_magic \o <<0>> \o pack_int32(1234) \o <<0, 0, 1>>,
      pack_magic \o <<255>> \o pack_int32(1234) \o pack_int32(0) }

Datagrams == Handshakes \cup Stats \cup Malformed

\* ---------------------------------------------------------------- QueryServer
\* self.challenge_cache.get(remote): <<>> stands for None, <<t>> for a token t.
CacheGet(cache, remote) == IF remote \in DOMAIN cache THEN <<cache[remote]>> ELSE <<>>

\* A store that gives the token to every remote address.
CacheStore_AllRemotes(cache, remote, token) == [r \in Remotes |-> token]

\* self.challenge_cache[remote] = challenge_token
CacheStore(cache, remote, token) ==
    [r \in DOMAIN cache \cup {remote} |-> IF r = remote THEN token ELSE cache[r]]

\* A token check that only asks whether the remote has a session.
TokenAdmitted_AnyToken(cache, remote, token) == remote \in DOMAIN cache

\* not (self.challenge_cache.get(remote) != challenge_token)
TokenAdmitted(cache, remote, token) == CacheGet(cache, remote) = <<token>>

\* A full-stat test that only asks whether 4 more bytes are there.
IsFullStatRequest_AnyFour(qb) == Len(Slice(qb.buf, qb.pos, qb.pos + 4)) = 4

\* buf.buf[buf.pos : buf.pos + 4] == b"\x00\x00\x00\x00"
IsFullStatRequest(qb) == Slice(qb.buf, qb.pos, qb.pos + 4) = <<0, 0, 0, 0>>

\* A handshake response that echoes the token as raw int32 bytes.
HandshakeResponse_RawToken(session_id, challenge_token) ==
    pack_byte(9) \o pack_int32(session_id) \o pack_int32(challenge_token) \o <<0>>

\* The handshake response: type 9, session id, the token as a decimal string.
HandshakeResponse(session_id, challenge_token) ==
    pack_byte(9) \o pack_int32(session_id) \o pack_string(StrInt(challenge_token))

\* The full stat response, field by field.
FullStatResponse(packet_type, session_id, cf) ==
    pack_byte(packet_type)
    \o pack_int32(session_id)
    \o <<115, 112, 108, 105, 116, 110, 117, 109, 0, 128, 0>>
    \o pack_string(<<104, 111, 115, 116, 110, 97, 109, 101>>)
    \o pack_string(cf.motd)
    \o pack_string(<<103, 97, 109, 101, 32, 116, 121, 112, 101>>)
    \o pack_string(<<83, 77, 80>>)
    \o pack_string(<<103, 97, 109, 101, 95, 105, 100>>)
    \o pack_string(<<77, 73, 78, 69, 67, 82, 65, 70, 84>>)
    \o pack_string(<<118, 101, 114, 115, 105, 111, 110>>)
    \o pack_string(cf.version)
    \o pack_string(<<112, 108, 117, 103, 105, 110, 115>>)
    \o pack_string(<<>>)
    \o pack_string(<<109, 97, 112>>)
    \o pack_string(cf.level_name)
    \o pack_string(<<110, 117, 109, 112, 108, 97, 121, 101, 114, 115>>)
    \o pack_string(StrInt(cf.numplayers))
    \o pack_string(<<109, 97, 120, 112, 108, 97, 121, 101, 114, 115>>)
    \o pack_string(StrInt(cf.max_players))
    \o pack_string(<<104, 111, 115, 116, 112, 111, 114, 116>>)
    \o pack_string(StrInt(cf.port))
    \o pack_string(<<104, 111, 115, 116, 105, 112>>)
    \o pack_string(cf.addr)
    \o <<0>>
    \o <<1, 112, 108, 97, 121, 101, 114, 95, 0, 0>>
    \o <<80, 101, 110, 105, 115, 0, 0>>

\* A basic stat response with the level name ahead of the game type.
BasicStatResponse_Swapped(packet_type, session_id, cf) ==
    pack_byte(packet_type)
    \o pack_int32(session_id)
    \o pack_string(cf.motd)
    \o pack_string(cf.level_name)
    \o pack_string(<<83, 77, 80>>)
    \o pack_string(StrInt(cf.numplayers))
    \o pack_string(StrInt(cf.max_players))
    \o pack_string(StrInt(cf.port))
    \o pack_string(cf.addr)

\* The basic stat response, field by field.
BasicStatResponse(packet_type, session_id, cf) ==
    pack_byte(packet_type)
    \o pack_int32(session_id)
    \o pack_string(cf.motd)
    \o pack_string(<<83, 77, 80>>)
    \o pack_string(cf.level_name)
    \o pack_string(StrInt(cf.numplayers))
    \o pack_string(StrInt(cf.max_players))
    \o pack_string(StrInt(cf.port))
    \o pack_string(cf.addr)

\* A handler outcome that sends nothing: the task is over, log says why.
Dropped(cache, log, seen) ==
    [cache |-> cache, pc |-> "done", out |-> <<>>, kind |-> "none", log |-> log, seen |-> seen]

\* A handler outcome that reaches a send.
Responding(cache, out, kind, seen) ==
    [cache |-> cache, pc |-> "send", out |-> out, kind |-> kind, log |-> "none", seen |-> seen]

\* The challenge token: 0 when nothing follows the session id, else an int32.
ReadChallengeToken(qb) ==
    IF Slice(qb.buf, qb.pos, Len(qb.buf)) = <<>>
    THEN [exc |-> "none", val |-> 0, qb |-> qb]
    ELSE unpack_int32(qb)

\* The type dispatch of handle_packet once all fields are parsed.
Dispatch(cache, remote, packet_type, session_id, challenge_token, qb, cf) ==
    IF packet_type = 9
    THEN Responding(CacheStore(cache, remote, challenge_token),
                    HandshakeResponse(session_id, challenge_token), "handshake", <<>>)
    ELSE IF packet_type = 0
    THEN IF ~TokenAdmitted(cache, remote, challenge_token)
         THEN Dropped(cache, "warn", CacheGet(cache, remote))
         ELSE IF IsFullStatRequest(qb)
              THEN Responding(cache, FullStatResponse(packet_type, session_id, cf),
                              "full", CacheGet(cache, remote))
              ELSE Responding(cache, BasicStatResponse(packet_type, session_id, cf),
                              "basic", CacheGet(cache, remote))
    ELSE Dropped(cache, "none", <<>>)

\* The one element of a singleton set.
Only(S) == CHOOSE x \in S : TRUE

\* handle_packet from its entry to its first await (or to its return): a
\* ValueError from unpack_magic is logged at debug level, any other exception
\* reaches the outer except BaseException and is logged as an error. Each
\* parsed field (m: magic, t: packet type, s: session id, c: challenge token)
\* is bound once, as the local variable it is in the code.
HandlePacketSync(cache, remote, data, cf) ==
    Only({ IF m.exc = "ValueError" THEN Dropped(cache, "debug", <<>>)
           ELSE IF m.exc # "none" THEN Dropped(cache, "error", <<>>)
           ELSE Only({ IF t.exc # "none" THEN Dropped(cache, "error", <<>>)
           ELSE Only({ IF s.exc # "none" THEN Dropped(cache, "error", <<>>)
           ELSE Only({ IF c.exc # "none" THEN Dropped(cache, "error", <<>>)
                       ELSE Dispatch(cache, remote, t.val, s.val, c.val, c.qb, cf) :
                  c \in {ReadChallengeToken(s.qb)} }) :
                  s \in {unpack_int32(t.qb)} }) :
                  t \in {unpack_byte(m.qb)} }) :
                  m \in {unpack_magic(QueryBuffer(data))} })

\* ---------------------------------------------------------------- state machine
Init ==
    /\ challenge_cache = << >>
    /\ tasks = << >>
    /\ sent = << >>
    /\ conf \in Confs
    /\ qbuf = << >>
    /\ qpos = 0
    /\ qop = [op |-> "init", n |-> 0, before |-> 0, exc |-> "none", ret |-> << >>]
    /\ server_task = "running"
    /\ cx = [op |-> "idle", pc |-> "idle", buf |-> << >>, start |-> 0, pos |-> 0,
             out |-> << >>, exc |-> "none", val |-> 0, s |-> << >>]
    /\ pkt = [op |-> "idle", sections |-> << >>, biomes |-> << >>, full |-> FALSE,
              out |-> << >>]
    /\ inst = [op |-> "idle", cls |-> "Packet", id_ |-> << >>, to |-> << >>,
               args |-> << >>]

bufVars == <<qbuf, qpos, qop>>
codecVars == <<cx, pkt, inst>>
serverVars == <<challenge_cache, tasks, sent, conf>>

\* handle: one turn of the receive loop, recv() then create_task(handle_packet).
handle(remote, data) ==
    /\ server_task = "running"
    /\ Len(tasks) < MaxTasks
    /\ tasks' = Append(tasks, [remote |-> remote, data |-> data, pc |-> "new",
                               out |-> << >>, kind |-> "none", log |-> "none",
                               seen |-> << >>])
    /\ UNCHANGED <<challenge_cache, sent, conf, bufVars, codecVars, server_task>>

\* Handler tasks that may start in any order.
handle_packet_AnyOrder(i) ==
    /\ tasks[i].pc = "new"
    /\ \E r \in {HandlePacketSync(challenge_cache, tasks[i].remote, tasks[i].data, conf)} :
           /\ challenge_cache' = r.cache
           /\ tasks' = [tasks EXCEPT ![i] = [@ EXCEPT !.pc = r.pc, !.out = r.out,
                                                     !.kind = r.kind, !.log = r.log,
                                                     !.seen = r.seen]]
    /\ UNCHANGED <<sent, conf, bufVars, codecVars, server_task>>

\* handle_packet: task i runs from its entry to its first await. The event
\* loop starts tasks in the order create_task was called.
handle_packet(i) ==
    /\ tasks[i].pc = "new"
    /\ \A j \in 1..(i - 1) : tasks[j].pc # "new"
    /\ \E r \in {HandlePacketSync(challenge_cache, tasks[i].remote, tasks[i].data, conf)} :
           /\ challenge_cache' = r.cache
           /\ tasks' = [tasks EXCEPT ![i] = [@ EXCEPT !.pc = r.pc, !.out = r.out,
                                                     !.kind = r.kind, !.log = r.log,
                                                     !.seen = r.seen]]
    /\ UNCHANGED <<sent, conf, bufVars, codecVars, server_task>>

\* A send after which the stat handler returns without sleeping.
send_done_NoDelay(i) ==
    /\ tasks[i].pc = "send"
    /\ sent' = Append(sent, [task |-> i, to |-> tasks[i].remote, data |-> tasks[i].out])
    /\ tasks' = [tasks EXCEPT ![i].pc = "done"]
    /\ UNCHANGED <<challenge_cache, conf, bufVars, codecVars, server_task>>

\* await self._server.send(out, remote) completes: the datagram is out; a stat
\* handler goes on to its sleep, a handshake handler is finished.
send_done(i) ==
    /\ tasks[i].pc = "send"
    /\ sent' = Append(sent, [task |-> i, to |-> tasks[i].remote, data |-> tasks[i].out])
    /\ tasks' = [tasks EXCEPT ![i].pc = IF tasks[i].kind = "handshake" THEN "done" ELSE "delay"]
    /\ UNCHANGED <<challenge_cache, conf, bufVars, codecVars, server_task>>

\* A failed send whose exception escapes the handler and ends the receive loop.
send_failed_EndsLoop(i) ==
    /\ tasks[i].pc = "send"
    /\ tasks' = [tasks EXCEPT ![i].pc = "done", ![i].log = "error"]
    /\ server_task' = "crashed"
    /\ UNCHANGED <<challenge_cache, sent, conf, bufVars, codecVars>>

\* await self._server.send(out, remote) raises: caught by except BaseException,
\* logged, nothing is sent and the handler ends.
send_failed(i) ==
    /\ tasks[i].pc = "send"
    /\ tasks' = [tasks EXCEPT ![i].pc = "done", ![i].log = "error"]
    /\ UNCHANGED <<challenge_cache, sent, conf, bufVars, codecVars, server_task>>

\* await asyncio.sleep(0.5) completes and the stat handler returns.
sleep_done(i) ==
    /\ tasks[i].pc = "delay"
    /\ tasks' = [tasks EXCEPT ![i].pc = "done"]
    /\ UNCHANGED <<challenge_cache, sent, conf, bufVars, codecVars, server_task>>

Next ==
    \/ \E remote \in Remotes, data \in Datagrams : handle(remote, data)
    \/ \E i \in DOMAIN tasks : handle_packet(i)
    \/ \E i \in DOMAIN tasks : send_done(i)
    \/ \E i \in DOMAIN tasks : send_failed(i)
    \/ \E i \in DOMAIN tasks : sleep_done(i)

Spec == Init /\ [][Next]_vars

\* ---------------------------------------------------------------- server life cycle
\* The same handlers under stop(), with more datagrams in one run and a small
\* choice of datagrams: a handshake, a basic stat, a bad magic, a truncated one.
LifeRemotes == {"r1"}

LifeDatagrams ==
    { pack_magic \o <<9>> \o pack_int32(1234),
      pack_magic \o <<0>> \o pack_int32(-2),
      <<253, 254, 9>> \o pack_int32(1234) \o pack_int32(1),
      pack_magic \o <<9, 0, 0>> }

\* A receive loop that awaits each handler before it receives again.
handle_life_Awaits(remote, data) ==
    /\ server_task = "running"
    /\ \A i \in DOMAIN tasks : tasks[i].pc = "done"
    /\ Len(tasks) < MaxHandlers
    /\ tasks' = Append(tasks, [remote |-> remote, data |-> data, pc |-> "new",
                               out |-> << >>, kind |-> "none", log |-> "none",
                               seen |-> << >>])
    /\ UNCHANGED <<challenge_cache, sent, conf, bufVars, codecVars, server_task>>

\* A receive loop that swallows its cancellation and keeps receiving.
handle_life_IgnoresCancel(remote, data) ==
    /\ Len(tasks) < MaxHandlers
    /\ tasks' = Append(tasks, [remote |-> remote, data |-> data, pc |-> "new",
                               out |-> << >>, kind |-> "none", log |-> "none",
                               seen |-> << >>])
    /\ UNCHANGED <<challenge_cache, sent, conf, bufVars, codecVars, server_task>>

\* handle: one turn of the receive loop while server_task is not cancelled;
\* create_task returns at once, whatever the earlier handlers are doing.
handle_life(remote, data) ==
    /\ server_task = "running"
    /\ Len(tasks) < MaxHandlers
    /\ tasks' = Append(tasks, [remote |-> remote, data |-> data, pc |-> "new",
                               out |-> << >>, kind |-> "none", log |-> "none",
                               seen |-> << >>])
    /\ UNCHANGED <<challenge_cache, sent, conf, bufVars, codecVars, server_task>>

\* A stop() that also empties the session cache.
stop_ClearsCache ==
    /\ server_task = "running"
    /\ server_task' = "cancelled"
    /\ challenge_cache' = << >>
    /\ UNCHANGED <<tasks, sent, conf, bufVars, codecVars>>

\* stop(): self.server_task.cancel() and self._server.close(). The loop is
\* suspended in recv() whenever stop() runs, so the CancelledError reaches it
\* before it can dispatch again. Handler tasks are neither cancelled nor awaited.
stop ==
    /\ server_task = "running"
    /\ server_task' = "cancelled"
    /\ UNCHANGED <<serverVars, bufVars, codecVars>>

NextLife ==
    \/ \E remote \in LifeRemotes, data \in LifeDatagrams : handle_life(remote, data)
    \/ \E i \in DOMAIN tasks : handle_packet(i)
    \/ \E i \in DOMAIN tasks : send_done(i)
    \/ \E i \in DOMAIN tasks : send_failed(i)
    \/ \E i \in DOMAIN tasks : sleep_done(i)
    \/ stop

\* A step of some handler task: it is started, its send completes or raises,
\* or its sleep ends.
HandlerStep ==
    \E i \in DOMAIN tasks :
        handle_packet(i) \/ send_done(i) \/ send_failed(i) \/ sleep_done(i)

\* The event loop keeps running the handler tasks that are ready.
FairLife == WF_vars(HandlerStep)

SpecLife == Init /\ [][NextLife]_vars /\ FairLife

\* ---------------------------------------------------------------- QueryBuffer alone
\* Byte strings handed to write().
WriteData == { <<7>>, <<0, 9>> }

BufWrite(data) ==
    /\ Len(qbuf) + Len(data) <= MaxBufLen
    /\ LET q == write([buf |-> qbuf, pos |-> qpos], data)
       IN  /\ qbuf' = q.buf
           /\ qpos' = q.pos
    /\ qop' = [op |-> "write", n |-> Len(data), before |-> qpos, exc |-> "none", ret |-> << >>]
    /\ UNCHANGED <<serverVars, codecVars, server_task>>

BufRead(n) ==
    /\ qpos + n <= MaxPos
    /\ LET r == read([buf |-> qbuf, pos |-> qpos], FALSE, n)
       IN  /\ qbuf' = r.qb.buf
           /\ qpos' = r.qb.pos
           /\ qop' = [op |-> "read", n |-> n, before |-> qpos, exc |-> r.exc, ret |-> r.ret]
    /\ UNCHANGED <<serverVars, codecVars, server_task>>

BufReadAll ==
    /\ qpos + Len(qbuf) <= MaxPos
    /\ LET r == read([buf |-> qbuf, pos |-> qpos], TRUE, 0)
       IN  /\ qbuf' = r.qb.buf
           /\ qpos' = r.qb.pos
           /\ qop' = [op |-> "readall", n |-> 0, before |-> qpos, exc |-> r.exc, ret |-> r.ret]
    /\ UNCHANGED <<serverVars, codecVars, server_task>>

BufReset ==
    /\ LET q == reset([buf |-> qbuf, pos |-> qpos])
       IN  /\ qbuf' = q.buf
           /\ qpos' = q.pos
    /\ qop' = [op |-> "reset", n |-> 0, before |-> qpos, exc |-> "none", ret |-> << >>]
    /\ UNCHANGED <<serverVars, codecVars, server_task>>

NextBuf ==
    \/ \E data \in WriteData : BufWrite(data)
    \/ \E n \in 0..MaxRead : BufRead(n)
    \/ BufReadAll
    \/ BufReset

SpecBuf == Init /\ [][NextBuf]_vars

TypeOK ==
    /\ DOMAIN challenge_cache \subseteq Remotes
    /\ Len(tasks) <= MaxTasks
    /\ Len(sent) <= Len(tasks)

\* ---------------------------------------------------------------- codec calls alone
SeqsUpTo(S, n) == UNION { [1..k -> S] : k \in 0..n }

\* Latin-1 strings without a null character handed to pack_string.
Strings == SeqsUpTo({65, 233, 255}, MaxStrLen)

\* Buffers unpack_string is called on, with or without a 0x00 in them.
StringBuffers == SeqsUpTo({0, 65, 255}, MaxStrLen + 1)

\* Buffers unpack_magic is called on.
MagicBuffers == { b \in SeqsUpTo({0, 253, 254}, 3) : Len(b) >= 2 }

\* QueryBuffer(pack_string(s)).unpack_string() is entered.
RoundTripBegin(s) ==
    /\ cx.pc # "loop"
    /\ cx' = [op |-> "roundtrip", pc |-> "loop", buf |-> pack_string(s), start |-> 0,
              pos |-> 0, out |-> << >>, exc |-> "none", val |-> 0, s |-> s]
    /\ UNCHANGED <<serverVars, bufVars, server_task, pkt, inst>>

\* unpack_string() is entered on a cursor over buf whose pos is start.
UnpackStringBegin(buf, start) ==
    /\ cx.pc # "loop"
    /\ cx' = [op |-> "unpack_string", pc |-> "loop", buf |-> buf, start |-> start,
              pos |-> start, out |-> << >>, exc |-> "none", val |-> 0, s |-> << >>]
    /\ UNCHANGED <<serverVars, bufVars, server_task, pkt, inst>>

\* One turn of the loop of unpack_string.
UnpackStringStep ==
    /\ cx.pc = "loop"
    /\ cx.pos < MaxPos
    /\ LET r == unpack_string_iter([buf |-> cx.buf, pos |-> cx.pos], cx.out)
       IN  cx' = [cx EXCEPT !.pc = r.pc, !.pos = r.qb.pos, !.out = r.out]
    /\ UNCHANGED <<serverVars, bufVars, server_task, pkt, inst>>

\* QueryBuffer(buf).unpack_magic() is called.
UnpackMagicCall(buf) ==
    /\ cx.pc # "loop"
    /\ LET r == unpack_magic(QueryBuffer(buf))
       IN  cx' = [op |-> "unpack_magic", pc |-> IF r.exc = "none" THEN "returned" ELSE "raised",
                  buf |-> buf, start |-> 0, pos |-> r.qb.pos, out |-> << >>,
                  exc |-> r.exc, val |-> r.val, s |-> << >>]
    /\ UNCHANGED <<serverVars, bufVars, server_task, pkt, inst>>

NextCodec ==
    \/ \E s \in Strings : RoundTripBegin(s)
    \/ \E buf \in StringBuffers : \E start \in 0..Len(buf) : UnpackStringBegin(buf, start)
    \/ UnpackStringStep
    \/ \E buf \in MagicBuffers : UnpackMagicCall(buf)

SpecCodec == Init /\ [][NextCodec]_vars

\* ---------------------------------------------------------------- PlayChunkData
\* pymine/net/packets/play/chunk.py. The packet is kept as the sequence of the
\* fields encode() concatenates, each tagged with the Buffer encoder that
\* produced it and carrying the encoded value as a sequence of integers.

\* Buffer.pack(f, value), Buffer.pack_varint(n), Buffer.pack_nbt(tag): one field.
Field(t, v) == << [t |-> t, v |-> v] >>

\* Buffer.pack_chunk_section_blocks(section): the section's pre-packed blob.
pack_chunk_section_blocks(section) == section.blocks

RECURSIVE Pow2(_)
Pow2(n) == IF n = 0 THEN 1 ELSE 2 * Pow2(n - 1)

BitSet(mask, y) == (mask \div Pow2(y)) % 2 = 1

\* mask | (1 << y)
OrBit(mask, y) == IF BitSet(mask, y) THEN mask ELSE mask + Pow2(y)

\* A loop body that leaves section 0 out of the mask and the data.
SectionStep_Positive(acc, item) ==
    IF item.y > 0
    THEN [mask |-> OrBit(acc.mask, item.y),
          buf |-> acc.buf \o pack_chunk_section_blocks(item)]
    ELSE acc

\* The body of the for loop over self.chunk.sections.items().
SectionStep(acc, item) ==
    IF item.y >= 0
    THEN [mask |-> OrBit(acc.mask, item.y),
          buf |-> acc.buf \o pack_chunk_section_blocks(item)]
    ELSE acc

\* The for loop: the items of the sections mapping in its iteration order.
RECURSIVE SectionLoop(_, _, _)
SectionLoop(items, k, acc) ==
    IF k > Len(items) THEN acc ELSE SectionLoop(items, k + 1, SectionStep(acc, items[k]))

RECURSIVE VarintEach(_, _)
VarintEach(ns, k) ==
    IF k > Len(ns) THEN << >> ELSE Field("varint", <<ns[k]>>) \o VarintEach(ns, k + 1)

\* A biome block that is written whether the chunk is full or not.
BiomeBlock_Always(biomes, full) ==
    Field("varint", <<Len(biomes)>>) \o VarintEach(biomes, 1)

\* if self.full: the biome count and every biome id, in stored order.
BiomeBlock(biomes, full) ==
    IF full THEN Field("varint", <<Len(biomes)>>) \o VarintEach(biomes, 1) ELSE << >>

\* PlayChunkData.encode()
encode(chunk, full) ==
    LET acc == SectionLoop(chunk.sections, 1, [mask |-> 0, buf |-> << >>])
    IN  Field("i", <<chunk.x>>) \o Field("i", <<chunk.z>>)
        \o Field("?", <<IF full THEN 1 ELSE 0>>)
        \o Field("varint", <<acc.mask>>)
        \o Field("nbt", chunk.motion_blocking \o chunk.world_surface)
        \o BiomeBlock(chunk.biomes, full)
        \o Field("varint", <<Len(acc.buf)>>) \o Field("bytes", acc.buf)
        \o Field("varint", <<0>>)

SectionYs == (0 - 1)..MaxSectionY

\* The block payload of the section stored at index y.
SectionBlocks(y) == [k \in 1..(1 + (y % 2)) |-> 10 + y]

\* Every order in which sections with distinct indices can sit in the mapping.
SectionOrders ==
    { q \in SeqsUpTo(SectionYs, Cardinality(SectionYs)) :
        \A a, b \in DOMAIN q : a # b => q[a] # q[b] }

BiomeArrays == { << >>, <<5, 3>> }

\* PlayChunkData(chunk, full).encode() for one chunk.
EncodeChunk(order, biomes, full) ==
    /\ LET chunk == [x |-> 3, z |-> 0 - 4,
                     sections |-> [k \in DOMAIN order |->
                                      [y |-> order[k], blocks |-> SectionBlocks(order[k])]],
                     motion_blocking |-> <<1, 2>>, world_surface |-> <<7>>,
                     biomes |-> biomes]
       IN  pkt' = [op |-> "encode", sections |-> chunk.sections, biomes |-> biomes,
                   full |-> full, out |-> encode(chunk, full)]
    /\ UNCHANGED <<serverVars, bufVars, server_task, cx, inst>>

NextChunk ==
    \E order \in SectionOrders, biomes \in BiomeArrays, full \in BOOLEAN :
        EncodeChunk(order, biomes, full)

SpecChunk == Init /\ [][NextChunk]_vars

\* ---------------------------------------------------------------- packet classes
\* A class is the record of the attributes its body assigns; << >> stands for
\* None and <<v>> for the value v.
\* class Packet: id_ = None, to = None
Packet == [id_ |-> << >>, to |-> << >>]

\* class PlayUnloadChunk(Packet): id = 0x1C, to = 1
PlayUnloadChunk == [id |-> <<28>>, to |-> <<1>>]

\* class PlayChunkData(Packet): id = 0x20, to = 1
PlayChunkData == [id |-> <<32>>, to |-> <<1>>]

\* class PlayUpdateLight(Packet): id = 0x23, to = 1
PlayUpdateLight == [id |-> <<35>>, to |-> <<1>>]

ChunkPacketClasses ==
    [PlayUnloadChunk |-> PlayUnloadChunk, PlayChunkData |-> PlayChunkData,
     PlayUpdateLight |-> PlayUpdateLight]

\* self.__class__.<name>: the class's own attribute if its body assigns one,
\* else the attribute of the base class Packet.
ClassAttr(cls, name) == IF name \in DOMAIN cls THEN cls[name] ELSE Packet[name]

\* Packet.__init__: self.id_ = self.__class__.id_; self.to = self.__class__.to
Packet_init(cls) == [id_ |-> ClassAttr(cls, "id_"), to |-> ClassAttr(cls, "to")]

ChunkCoords == (0 - MaxCoord)..MaxCoord

\* The instance a constructor of chunk.py leaves behind: super().__init__(),
\* then the arguments are kept on the instance.
NewInstance(name, args) ==
    LET self == Packet_init(ChunkPacketClasses[name])
    IN  [op |-> "new", cls |-> name, id_ |-> self.id_, to |-> self.to, args |-> args]

PlayUnloadChunk_init(chunk_x, chunk_z) ==
    /\ inst' = NewInstance("PlayUnloadChunk", <<chunk_x, chunk_z>>)
    /\ UNCHANGED <<serverVars, bufVars, server_task, cx, pkt>>

PlayChunkData_init(order, full) ==
    /\ inst' = NewInstance("PlayChunkData", <<order, full>>)
    /\ UNCHANGED <<serverVars, bufVars, server_task, cx, pkt>>

PlayUpdateLight_init(order) ==
    /\ inst' = NewInstance("PlayUpdateLight", <<order>>)
    /\ UNCHANGED <<serverVars, bufVars, server_task, cx, pkt>>

NextPacket ==
    \/ \E chunk_x, chunk_z \in ChunkCoords : PlayUnloadChunk_init(chunk_x, chunk_z)
    \/ \E order \in SectionOrders, full \in BOOLEAN : PlayChunkData_init(order, full)
    \/ \E order \in SectionOrders : PlayUpdateLight_init(order)

SpecPacket == Init /\ [][NextPacket]_vars

\* ---------------------------------------------------------------- properties
\* What a datagram says, read off its bytes by position.
HasMagic(d) == Len(d) >= 2 /\ d[1] = 254 /\ d[2] = 253

SignedAt(d, k) ==
    (IF d[k] >= 128 THEN d[k] - 256 ELSE d[k]) * 16777216
        + d[k + 1] * 65536 + d[k + 2] * 256 + d[k + 3]

\* Magic, type, session id, then either nothing or a complete token.
WellFormed(d) == HasMagic(d) /\ (Len(d) = 7 \/ Len(d) >= 11)

IsHandshake(d) == WellFormed(d) /\ d[3] = 9
IsStat(d) == WellFormed(d) /\ d[3] = 0
SessionOf(d) == SignedAt(d, 4)
TokenOf(d) == IF Len(d) = 7 THEN 0 ELSE SignedAt(d, 8)
FourZerosFollowToken(d) == Len(d) >= 15 /\ SubSeq(d, 12, 15) = <<0, 0, 0, 0>>

SplitnumPadding == <<115, 112, 108, 105, 116, 110, 117, 109, 0, 128, 0>>
PlayerPadding == <<1, 112, 108, 97, 121, 101, 114, 95, 0, 0>>

Contains(s, pat) ==
    \E k \in 1..(Len(s) - Len(pat) + 1) :
        s[k] = pat[1] /\ SubSeq(s, k, k + Len(pat) - 1) = pat

EndsWith(s, pat) ==
    Len(s) >= Len(pat) /\ SubSeq(s, Len(s) - Len(pat) + 1, Len(s)) = pat

\* The datagrams in a send log that task i sent.
SentBy(log, i) == { k \in DOMAIN log : log[k].task = i }

Starts(i) == tasks[i].pc = "new" /\ tasks'[i].pc # "new"
SendReturns(i) == tasks[i].pc = "send" /\ tasks'[i].pc # "send" /\ tasks'[i].log = "none"

\* C1: a stat datagram from R carrying token T leads to an outbound datagram
\* only if, when the handler checked, challenge_cache held an entry for R and
\* that entry was T; otherwise nothing is ever sent for that request.
C1_StatNeedsToken ==
    \A i \in DOMAIN tasks :
        IsStat(tasks[i].data) /\ tasks[i].pc # "new" =>
            \/ tasks[i].seen = <<TokenOf(tasks[i].data)>>
            \/ tasks[i].pc = "done" /\ tasks[i].out = << >> /\ SentBy(sent, i) = {}

C1_Witness ==
    \E i \in DOMAIN tasks :
        /\ IsStat(tasks[i].data) /\ tasks[i].pc = "done"
        /\ tasks[i].seen # << >>
        /\ tasks[i].seen # <<TokenOf(tasks[i].data)>>
        /\ SentBy(sent, i) = {}

\* C2: a well-formed handshake from R with session id S stores the received
\* token (0 when none follows the session id) as R's entry whatever was there
\* before, and sends exactly one datagram to R: byte 9, S as big-endian int32,
\* the token in decimal, one 0x00.
C2_Expected(d) == <<9>> \o pack_int32(SessionOf(d)) \o StrInt(TokenOf(d)) \o <<0>>

C2_Step ==
    \A i \in DOMAIN tasks :
        IsHandshake(tasks[i].data) =>
            /\ Starts(i) =>
                /\ tasks[i].remote \in DOMAIN challenge_cache'
                /\ challenge_cache'[tasks[i].remote] = TokenOf(tasks[i].data)
                /\ tasks'[i].pc = "send"
            /\ SendReturns(i) =>
                /\ sent' = Append(sent, [task |-> i, to |-> tasks[i].remote,
                                         data |-> C2_Expected(tasks[i].data)])
                /\ tasks'[i].pc = "done"
            /\ Cardinality(SentBy(sent', i)) <= 1
            /\ tasks[i].pc = "done" => SentBy(sent', i) = SentBy(sent, i)

C2_Handshake == [][C2_Step]_vars

C2_Witness ==
    \E i, j \in DOMAIN tasks :
        /\ i < j /\ tasks[i].remote = tasks[j].remote
        /\ IsHandshake(tasks[i].data) /\ tasks[i].pc = "done"
        /\ IsHandshake(tasks[j].data) /\ tasks[j].pc = "done"
        /\ TokenOf(tasks[i].data) # TokenOf(tasks[j].data)
        /\ Len(tasks[j].data) = 7
        /\ Cardinality(SentBy(sent, j)) = 1
        /\ challenge_cache[tasks[j].remote] = 0

\* C3: an admitted stat request gets a full-stat response, the one with the
\* fixed padding markers, exactly when the 4 bytes right after the challenge
\* token are all zero; in every other case the response has no padding.
C3_FullIffFourZeros ==
    \A i \in DOMAIN tasks :
        IsStat(tasks[i].data) /\ tasks[i].out # << >> =>
            IF FourZerosFollowToken(tasks[i].data)
            THEN /\ Len(tasks[i].out) >= 16
                 /\ SubSeq(tasks[i].out, 6, 16) = SplitnumPadding
                 /\ Contains(tasks[i].out, PlayerPadding)
            ELSE /\ ~Contains(tasks[i].out, SplitnumPadding)
                 /\ ~Contains(tasks[i].out, PlayerPadding)

C3_Witness ==
    \E i \in DOMAIN tasks :
        /\ IsStat(tasks[i].data) /\ FourZerosFollowToken(tasks[i].data)
        /\ Len(tasks[i].data) = 15
        /\ tasks[i].pc = "done" /\ tasks[i].log = "none"
        /\ \E k \in SentBy(sent, i) : Contains(sent[k].data, SplitnumPadding)

\* C4: a datagram that does not start with the magic (one shorter than two
\* bytes included) sends nothing and leaves challenge_cache as it was.
C4_Step ==
    \A i \in DOMAIN tasks :
        ~HasMagic(tasks[i].data) =>
            /\ Starts(i) =>
                /\ challenge_cache' = challenge_cache
                /\ tasks'[i].pc = "done"
            /\ SentBy(sent', i) = {}

C4_BadMagic == [][C4_Step]_vars

C4_Witness ==
    \E i, j \in DOMAIN tasks :
        /\ i < j
        /\ IsHandshake(tasks[i].data) /\ tasks[i].pc = "done"
        /\ ~HasMagic(tasks[j].data) /\ Len(tasks[j].data) >= 2
        /\ tasks[j].pc = "done"
        /\ DOMAIN challenge_cache = {tasks[i].remote}

\* C5: with valid magic, a packet type other than 9 and 0, or bytes that end
\* before the type byte, inside the session id or inside the challenge token,
\* send nothing and leave challenge_cache as it was.
Truncated(d) == HasMagic(d) /\ ~WellFormed(d)
OtherType(d) == HasMagic(d) /\ Len(d) >= 3 /\ d[3] \notin {0, 9}

C5_Step ==
    \A i \in DOMAIN tasks :
        Truncated(tasks[i].data) \/ OtherType(tasks[i].data) =>
            /\ Starts(i) =>
                /\ challenge_cache' = challenge_cache
                /\ tasks'[i].pc = "done"
            /\ SentBy(sent', i) = {}

C5_TruncatedOrUnknown == [][C5_Step]_vars

C5_Witness ==
    \E i, j \in DOMAIN tasks :
        /\ Truncated(tasks[i].data) /\ Len(tasks[i].data) \in 8..10
        /\ tasks[i].data[3] = 9 /\ tasks[i].pc = "done"
        /\ OtherType(tasks[j].data) /\ WellFormed(tasks[j].data)
        /\ tasks[j].pc = "done"

\* C6: once R's entry is T, a basic stat request from R with token T and
\* session id S gets exactly one response, to R: type byte 0, S, then the
\* motd, "SMP", level name, player count, max players, port and address.
C6_Expected(d) ==
    <<0>> \o pack_int32(SessionOf(d))
    \o conf.motd \o <<0>>
    \o <<83, 77, 80, 0>>
    \o conf.level_name \o <<0>>
    \o StrInt(conf.numplayers) \o <<0>>
    \o StrInt(conf.max_players) \o <<0>>
    \o StrInt(conf.port) \o <<0>>
    \o conf.addr \o <<0>>

C6_Step ==
    \A i \in DOMAIN tasks :
        IsStat(tasks[i].data) /\ ~FourZerosFollowToken(tasks[i].data) =>
            /\ ( /\ Starts(i)
                 /\ CacheGet(challenge_cache, tasks[i].remote) = <<TokenOf(tasks[i].data)>> ) =>
                /\ tasks'[i].pc = "send"
                /\ tasks'[i].out = C6_Expected(tasks[i].data)
            /\ SendReturns(i) =>
                sent' = Append(sent, [task |-> i, to |-> tasks[i].remote,
                                      data |-> C6_Expected(tasks[i].data)])
            /\ Cardinality(SentBy(sent', i)) <= 1
            /\ tasks'[i].pc = "done" /\ tasks'[i].log = "none" /\ tasks'[i].out # << >> =>
                Cardinality(SentBy(sent', i)) = 1

C6_BasicStat == [][C6_Step]_vars

C6_Witness ==
    \E i, j \in DOMAIN tasks :
        /\ i < j /\ tasks[i].remote = tasks[j].remote
        /\ IsHandshake(tasks[i].data) /\ tasks[i].pc = "done"
        /\ IsStat(tasks[j].data) /\ ~FourZerosFollowToken(tasks[j].data)
        /\ SessionOf(tasks[j].data) # SessionOf(tasks[i].data)
        /\ tasks[j].pc = "done" /\ tasks[j].log = "none"
        /\ Cardinality(SentBy(sent, j)) = 1

\* C7: every full-stat response ends with the player-section padding marker
\* followed by an empty player list: nothing but the final terminator comes
\* after the marker.
C7_EmptyPlayerList ==
    \A i \in DOMAIN tasks :
        Len(tasks[i].out) >= 16 /\ SubSeq(tasks[i].out, 6, 16) = SplitnumPadding =>
            EndsWith(tasks[i].out, PlayerPadding \o <<0>>)

\* C8: read(n) with n larger than what is left between the read position and
\* the end fails with a buffer-underrun error and leaves the position alone.
C8_UnderrunFails ==
    qop.op = "read" /\ qop.n > Len(qbuf) - qop.before =>
        qop.exc = "BufferUnderrun" /\ qpos = qop.before

\* C9: read() at any position p returns the bytes from p to the end and leaves
\* the read position equal to the buffer length.
C9_ReadAllToEnd ==
    qop.op = "readall" =>
        /\ qop.ret = Slice(qbuf, qop.before, Len(qbuf))
        /\ qpos = Len(qbuf)

\* C10: after any sequence of write, read(n), read() and reset in which every
\* read returned, the read position is between 0 and the buffer length.
C10_PosWithinBuffer == 0 <= qpos /\ qpos <= Len(qbuf)

\* C11: unpack_string on a cursor with no 0x00 at or after the read position
\* stops and fails with an unterminated-string error: it returns nothing and
\* does not go on reading past the end.
NoNulFrom(buf, start) == \A k \in (start + 1)..Len(buf) : buf[k] # 0

C11_UnterminatedFails ==
    cx.op = "unpack_string" /\ NoNulFrom(cx.buf, cx.start) =>
        /\ cx.pc # "returned"
        /\ cx.pos > Len(cx.buf) => cx.pc = "raised" /\ cx.exc = "UnterminatedString"

\* C12: for a Latin-1 string s without a null character,
\* QueryBuffer(pack_string(s)).unpack_string() returns s with the read position
\* at the end of the buffer, len(s) + 1 bytes consumed.
C12_StringRoundTrip ==
    cx.op = "roundtrip" =>
        /\ cx.pc # "raised"
        /\ cx.pos <= Len(cx.s) + 1
        /\ cx.pos = Len(cx.s) + 1 => cx.pc = "returned"
        /\ cx.pc = "returned" =>
            /\ cx.out = cx.s
            /\ cx.pos = Len(cx.s) + 1
            /\ cx.pos = Len(cx.buf)

C12_Witness ==
    /\ cx.op = "roundtrip" /\ cx.pc = "returned"
    /\ Len(cx.s) >= 2 /\ cx.s[1] = 255 /\ cx.s[2] = 65

PresentYs(sections) == { sections[k].y : k \in DOMAIN sections }

\* C14: the mask encode emits has bit y set exactly when y >= 0 and a section
\* with index y is present; sections with a negative index set no bit.
C14_MaskBits ==
    pkt.op = "encode" =>
        /\ pkt.out[4].t = "varint"
        /\ LET mask == pkt.out[4].v[1]
           IN  /\ \A y \in 0..(MaxSectionY + 1) :
                     BitSet(mask, y) <=> y \in PresentYs(pkt.sections)
               /\ 0 <= mask /\ mask < Pow2(MaxSectionY + 2)

C14_Witness ==
    /\ pkt.op = "encode"
    /\ {0 - 1, 0, 2} \subseteq PresentYs(pkt.sections)
    /\ 1 \notin PresentYs(pkt.sections)

\* The payloads of the sections with index in ys, lowest index first.
RECURSIVE AscendingData(_, _)
AscendingData(sections, ys) ==
    IF ys = {} THEN << >>
    ELSE LET lo == CHOOSE y \in ys : \A o \in ys : y <= o
             k == CHOOSE j \in DOMAIN sections : sections[j].y = lo
         IN  sections[k].blocks \o AscendingData(sections, ys \ {lo})

\* C15: whatever the order of the sections in the mapping, the section data
\* encode emits is the payloads of the sections with index >= 0 in ascending
\* index order, the k-th payload belonging to the k-th lowest set mask bit.
C15_AscendingSectionData ==
    pkt.op = "encode" =>
        /\ pkt.out[Len(pkt.out) - 1].t = "bytes"
        /\ pkt.out[Len(pkt.out) - 1].v =
               AscendingData(pkt.sections, { y \in PresentYs(pkt.sections) : y >= 0 })

\* C16: encode emits the biome block, a count then each biome id in stored
\* order, between the heightmap compound and the section-data length exactly
\* when full is true; otherwise the section-data length follows the compound.
C16_BiomeBlockIffFull ==
    pkt.op = "encode" =>
        LET n == Len(pkt.biomes)
            after == IF pkt.full THEN 6 + n + 1 ELSE 6
        IN  /\ pkt.out[5].t = "nbt"
            /\ Len(pkt.out) = after + 2
            /\ pkt.full =>
                /\ pkt.out[6] = [t |-> "varint", v |-> <<n>>]
                /\ \A k \in 1..n : pkt.out[6 + k] = [t |-> "varint", v |-> <<pkt.biomes[k]>>]
            /\ pkt.out[after].t = "varint"
            /\ pkt.out[after + 1].t = "bytes"
            /\ pkt.out[after].v = <<Len(pkt.out[after + 1].v)>>

C16_Witness ==
    /\ pkt.op = "encode" /\ pkt.full /\ pkt.biomes = <<5, 3>>
    /\ PresentYs(pkt.sections) # {}

\* C17: an error raised while handling one datagram (bad magic, truncated
\* input, failed send) ends only that handler: the receive loop is left as it
\* was and still dispatches, and every other handler is left untouched.
EndsInError(i) ==
    tasks[i].pc # "done" /\ tasks'[i].pc = "done" /\ tasks'[i].log \in {"debug", "error"}

C17_Step ==
    \A i \in DOMAIN tasks :
        EndsInError(i) =>
            /\ server_task' = server_task
            /\ Len(tasks') = Len(tasks)
            /\ \A j \in DOMAIN tasks : j # i => tasks'[j] = tasks[j]
            /\ sent' = sent
            /\ challenge_cache' = challenge_cache

C17_ErrorsContained == [][C17_Step]_vars

C17_Witness ==
    \E i, j, k \in DOMAIN tasks :
        /\ i < j /\ j < k
        /\ tasks[i].log = "debug" /\ tasks[i].pc = "done"
        /\ tasks[j].log = "error" /\ tasks[j].pc = "done" /\ tasks[j].out # << >>
        /\ tasks[k].pc = "done" /\ tasks[k].log = "none" /\ SentBy(sent, k) # {}
        /\ server_task = "running"

\* C18: while a handler is suspended in its send or in its delay, the receive
\* loop can still receive and dispatch, and a second handler can enter its
\* delay while another one is in its own.
C18_LoopNotBlocked ==
    /\ ( /\ server_task = "running"
         /\ Len(tasks) < MaxHandlers
         /\ \E i \in DOMAIN tasks : tasks[i].pc \in {"send", "delay"} ) =>
            ENABLED (\E remote \in LifeRemotes, data \in LifeDatagrams :
                        handle_life(remote, data))
    /\ \A i, j \in DOMAIN tasks :
        tasks[i].pc = "delay" /\ tasks[j].pc = "send" => ENABLED send_done(j)

C18_Witness ==
    \E i, j \in DOMAIN tasks :
        /\ i # j /\ tasks[i].pc = "delay" /\ tasks[j].pc = "delay"
        /\ server_task = "running"

\* C19: within one handler the order is parse, validate, respond, delay: a
\* stat response goes out only after the token check passed, the delay starts
\* only after the response went out, the handler ends only after the delay,
\* and a handler that sent no stat response has no delay.
PcRank(pc) == CASE pc = "new" -> 0 [] pc = "send" -> 1 [] pc = "delay" -> 2 [] OTHER -> 3

C19_Step ==
    \A i \in DOMAIN tasks :
        LET t == tasks[i]
            u == tasks'[i]
        IN  /\ PcRank(t.pc) <= PcRank(u.pc)
            /\ IsStat(t.data) /\ SentBy(sent', i) # SentBy(sent, i) =>
                t.pc = "send" /\ t.seen = <<TokenOf(t.data)>>
            /\ t.pc # "delay" /\ u.pc = "delay" =>
                t.pc = "send" /\ SentBy(sent, i) = {} /\ SentBy(sent', i) # {}
            /\ u.pc = "delay" => IsStat(t.data) /\ SentBy(sent', i) # {}
            /\ ( /\ IsStat(t.data) /\ SentBy(sent', i) # {}
                 /\ t.pc # "done" /\ u.pc = "done" ) => t.pc = "delay"

C19_HandlerOrder == [][C19_Step]_vars

C19_Witness ==
    \E i, j \in DOMAIN tasks :
        /\ IsStat(tasks[i].data) /\ tasks[i].pc = "done" /\ SentBy(sent, i) # {}
        /\ IsHandshake(tasks[j].data) /\ tasks[j].pc = "done" /\ SentBy(sent, j) # {}

\* C20: after stop() the receive loop dispatches no further handler, and every
\* handler in flight at that time eventually finishes.
C20_NoDispatch == server_task = "cancelled" => Len(tasks') = Len(tasks)

C20_StopDrains ==
    /\ [][C20_NoDispatch]_vars
    /\ (server_task = "cancelled") ~> (\A i \in DOMAIN tasks : tasks[i].pc = "done")

C20_Witness ==
    /\ server_task = "cancelled"
    /\ \E i, j \in DOMAIN tasks : tasks[i].pc = "delay" /\ tasks[j].pc \in {"new", "send"}

\* C21: an entry of challenge_cache, once there, is there in every later
\* state: no datagram, handler outcome or stop() removes one, and an entry
\* appears only when a type-9 handshake from that remote is handled.
C21_Step ==
    /\ DOMAIN challenge_cache \subseteq DOMAIN challenge_cache'
    /\ \A r \in DOMAIN challenge_cache' \ DOMAIN challenge_cache :
        \E i \in DOMAIN tasks :
            /\ Starts(i)
            /\ tasks[i].remote = r
            /\ IsHandshake(tasks[i].data)

C21_EntriesStay == [][C21_Step]_vars

C21_Witness ==
    /\ server_task = "cancelled"
    /\ DOMAIN challenge_cache # {}
    /\ \E i, j \in DOMAIN tasks :
        /\ tasks[i].pc = "done" /\ tasks[i].log = "error"
        /\ tasks[j].pc = "done" /\ IsStat(tasks[j].data)

\* C22: reset() sets the read position to 0 and leaves the contents alone;
\* write(data) appends data at the end and leaves the read position alone; so
\* a read() that follows a reset() returns everything written so far and
\* leaves the contents for the next reset() and read().
C22_Step ==
    /\ qop'.op = "reset" => qpos' = 0 /\ qbuf' = qbuf
    /\ qop'.op = "write" =>
        /\ qpos' = qpos
        /\ \E data \in WriteData : Len(data) = qop'.n /\ qbuf' = qbuf \o data
    /\ (qop.op = "reset" /\ qop'.op = "readall") =>
        /\ qop'.exc = "none"
        /\ qop'.ret = qbuf
        /\ qbuf' = qbuf

C22_ResetAndWrite == [][C22_Step]_vars

C22_Witness ==
    /\ qop.op = "reset"
    /\ Len(qbuf) >= 2
    /\ qop.before >= Len(qbuf)
    /\ qpos = 0

\* C23: handling a datagram from remote R changes at most R's entry of
\* challenge_cache: the entry of every other remote is as before, a type-0
\* datagram changes no entry whether it is answered or dropped, and the steps
\* that are not a handler's start (dispatch, send, sleep) change none either.
IsTypeZero(d) == HasMagic(d) /\ Len(d) >= 3 /\ d[3] = 0

C23_Step ==
    /\ \A i \in DOMAIN tasks :
        Starts(i) =>
            /\ \A r \in Remotes \ {tasks[i].remote} :
                CacheGet(challenge_cache', r) = CacheGet(challenge_cache, r)
            /\ IsTypeZero(tasks[i].data) => challenge_cache' = challenge_cache
    /\ (\A i \in DOMAIN tasks : ~Starts(i)) => challenge_cache' = challenge_cache

C23_OnlyOwnEntry == [][C23_Step]_vars

C23_Witness ==
    /\ Len(tasks) = 2
    /\ IsHandshake(tasks[1].data) /\ IsHandshake(tasks[2].data)
    /\ tasks[1].remote # tasks[2].remote
    /\ TokenOf(tasks[1].data) # TokenOf(tasks[2].data)
    /\ tasks[1].pc = "done" /\ tasks[2].pc = "done"
    /\ CacheGet(challenge_cache, tasks[1].remote) = <<TokenOf(tasks[1].data)>>
    /\ CacheGet(challenge_cache, tasks[2].remote) = <<TokenOf(tasks[2].data)>>

\* C24: of the handshakes from one remote whose handlers have started, the
\* one dispatched last has its token in challenge_cache, from the moment its
\* handler has started (so before its send) and whatever the order in which
\* the sends and the handlers complete.
C24_LastDispatchedWins ==
    \A j \in DOMAIN tasks :
        ( /\ IsHandshake(tasks[j].data)
          /\ tasks[j].pc # "new"
          /\ \A k \in (j + 1)..Len(tasks) :
                tasks[k].remote = tasks[j].remote /\ IsHandshake(tasks[k].data)
                    => tasks[k].pc = "new" )
        => CacheGet(challenge_cache, tasks[j].remote) = <<TokenOf(tasks[j].data)>>

C24_Witness ==
    /\ Len(tasks) = 2
    /\ tasks[1].remote = tasks[2].remote
    /\ IsHandshake(tasks[1].data) /\ IsHandshake(tasks[2].data)
    /\ TokenOf(tasks[1].data) # TokenOf(tasks[2].data)
    /\ tasks[1].pc = "done" /\ tasks[2].pc = "done"
    /\ Len(sent) = 2 /\ sent[1].task = 2 /\ sent[2].task = 1
    /\ CacheGet(challenge_cache, tasks[2].remote) = <<TokenOf(tasks[2].data)>>

\* C25: on a newly constructed PlayUnloadChunk, PlayChunkData or
\* PlayUpdateLight the identifier copied by Packet.__init__ is the id the
\* class declares (0x1C, 0x20, 0x23) and the copied direction is 1.
C25_CopiedIdAndDirection ==
    inst.op = "new" =>
        /\ inst.id_ = ChunkPacketClasses[inst.cls].id
        /\ inst.id_ = (CASE inst.cls = "PlayUnloadChunk" -> <<28>>
                         [] inst.cls = "PlayChunkData" -> <<32>>
                         [] inst.cls = "PlayUpdateLight" -> <<35>>)
        /\ inst.to = <<1>>

\* The part of C25 the code does satisfy: the copied direction is 1.
C25_CopiedDirection == inst.op = "new" => inst.to = <<1>>

====
